---- MODULE Spec2Model ----
(***************************************************************************)
(* Installation / uninstallation state machine of the AI_Environment       *)
(* installer: the step ledger (StepTracker), the unified status record     *)
(* (InstallationStatusManager), the orchestrators (InstallManager,         *)
(* MasterInstaller) and the two uninstallers (AutomatedUninstaller,        *)
(* SelectiveUninstaller).                                                  *)
(*                                                                         *)
(* Five specifications share the variables:                                *)
(*   SpecLedger    - arbitrary calls of the StepTracker operations         *)
(*   Spec          - installer entry points driving ledger + status record *)
(*   SpecUninstall - uninstall plans and their execution on a filesystem   *)
(*   SpecDurable   - the ledger file across writes, crashes and re-opens   *)
(*   SpecDetect    - detection and selection of the installations to remove*)
(***************************************************************************)
EXTENDS Integers, Sequences, FiniteSets, TLC

VARIABLES
    status,      \* StepTracker.status: the ledger (installation_status.json)
    hist,        \* the StepTracker operations called so far, oldest first
    master,      \* InstallationStatusManager.status_data (master_installation_status.json)
    run,         \* the InstallManager process: its position in run_installation
    launches,    \* number of installer launches so far
    fs,          \* top-level entries of the AI_Environment root: name -> kind
    roots,       \* the two root directories, the shared Conda and the backup on disk
    install_info,\* the candidate handed to create_uninstall_plan
    options,     \* uninstall options (keep_projects, backup)
    plan,        \* the plan built by create_uninstall_plan
    phase,       \* position of the uninstaller process
    execution,   \* what execute_uninstall did, phase by phase
    disk,        \* installation_status.json as it is on disk
    proc,        \* the process holding the StepTracker object
    machine,     \* the volumes and the status files the uninstaller's detection reads
    installations,\* the list returned by detect_all_installations
    session      \* automated_uninstaller.main: its flags, position and result

ledgerVars == <<status, hist>>
installVars == <<master, run, launches>>
uninstallVars == <<fs, roots, install_info, options, plan, phase, execution>>
durableVars == <<disk, proc>>
detectVars == <<machine, installations, session>>
vars == <<status, hist, master, run, launches, fs, roots, install_info, options, plan, phase,
          execution, disk, proc, machine, installations, session>>

----------------------------------------------------------------------------
(* Bounds of the model *)

\* longest sequence of direct StepTracker calls explored by SpecLedger
MaxCalls == 3

\* number of installer launches explored by Spec
MaxLaunches == 2

\* largest number of names recorded in the snapshot's existing_subdirs
MaxPreExisting == 1
MaxStuck == 1

----------------------------------------------------------------------------
(* Step ledger: StepTracker *)

\* len(self.STEPS)
TotalSteps == 8

STEPS == 1..TotalSteps

\* x in list
IsIn(x, list) == \E i \in 1..Len(list) : list[i] = x

\* the elements of a list
ListSet(list) == {list[i] : i \in 1..Len(list)}

\* list.remove(x): drops the first occurrence of x
RECURSIVE ListRemove(_, _)
ListRemove(list, x) ==
    IF list = <<>> THEN <<>>
    ELSE IF Head(list) = x THEN Tail(list)
    ELSE <<Head(list)>> \o ListRemove(Tail(list), x)

\* [s for s in list if s < n]
RECURSIVE ListBelow(_, _)
ListBelow(list, n) ==
    IF list = <<>> THEN <<>>
    ELSE IF Head(list) < n THEN <<Head(list)>> \o ListBelow(Tail(list), n)
    ELSE ListBelow(Tail(list), n)

\* min(list), for a non-empty list: a left-to-right scan keeping the smallest
RECURSIVE ListMinFrom(_, _)
ListMinFrom(best, list) ==
    IF list = <<>> THEN best
    ELSE ListMinFrom(IF Head(list) < best THEN Head(list) ELSE best, Tail(list))

ListMin(list) == ListMinFrom(Head(list), Tail(list))

NoDetails == [n \in STEPS |-> "absent"]

\* the snapshot written by _capture_pre_install_state
Snapshot(existed, subdirs, allusers) ==
    [ai_env_existed |-> existed, existing_subdirs |-> subdirs, allusers_exists |-> allusers]

\* _create_initial_status
create_initial_status(snapshot) ==
    [current_step |-> 1,
     completed_steps |-> <<>>,
     failed_steps |-> <<>>,
     step_details |-> NoDetails,
     resume_available |-> FALSE,
     installation_complete |-> FALSE,
     completed_components |-> [n \in STEPS |-> <<>>],
     pre_install_state |-> snapshot]

\* StepTracker.start_step
start_step(s, n) ==
    IF n \notin STEPS THEN s
    ELSE [s EXCEPT !.current_step = n, !.step_details[n] = "in_progress",
                   !.completed_components[n] = <<>>]

\* complete_step advancing current_step past the last step (no `step_number < len(STEPS)` test)
complete_step_unguarded(s, n) ==
    IF n \notin STEPS THEN s
    ELSE [s EXCEPT
            !.completed_steps =
                IF ~IsIn(n, s.completed_steps) THEN Append(s.completed_steps, n)
                ELSE s.completed_steps,
            !.failed_steps =
                IF IsIn(n, s.failed_steps) THEN ListRemove(s.failed_steps, n)
                ELSE s.failed_steps,
            !.step_details[n] =
                IF s.step_details[n] # "absent" THEN "completed" ELSE "absent",
            !.current_step = n + 1]

\* complete_step appending without the `not in completed_steps` test
complete_step_no_dedup(s, n) ==
    IF n \notin STEPS THEN s
    ELSE [s EXCEPT
            !.completed_steps = Append(s.completed_steps, n),
            !.failed_steps =
                IF IsIn(n, s.failed_steps) THEN ListRemove(s.failed_steps, n)
                ELSE s.failed_steps,
            !.step_details[n] =
                IF s.step_details[n] # "absent" THEN "completed" ELSE "absent",
            !.current_step =
                IF n < TotalSteps THEN n + 1 ELSE s.current_step]

\* StepTracker.complete_step
complete_step(s, n) ==
    IF n \notin STEPS THEN s
    ELSE [s EXCEPT
            !.completed_steps =
                IF ~IsIn(n, s.completed_steps) THEN Append(s.completed_steps, n)
                ELSE s.completed_steps,
            !.failed_steps =
                IF IsIn(n, s.failed_steps) THEN ListRemove(s.failed_steps, n)
                ELSE s.failed_steps,
            !.step_details[n] =
                IF s.step_details[n] # "absent" THEN "completed" ELSE "absent",
            !.current_step =
                IF n < TotalSteps THEN n + 1 ELSE s.current_step]

\* StepTracker.fail_step
fail_step(s, n) ==
    IF n \notin STEPS THEN s
    ELSE [s EXCEPT
            !.failed_steps =
                IF ~IsIn(n, s.failed_steps) THEN Append(s.failed_steps, n)
                ELSE s.failed_steps,
            !.step_details[n] =
                IF s.step_details[n] # "absent" THEN "failed" ELSE "absent",
            !.resume_available = TRUE]

\* get_resume_step taking the first recorded failure instead of the smallest
get_resume_step_first(s) ==
    IF s.failed_steps # <<>> THEN Head(s.failed_steps) ELSE s.current_step

\* StepTracker.get_resume_step
get_resume_step(s) ==
    IF s.failed_steps # <<>> THEN ListMin(s.failed_steps) ELSE s.current_step

\* reset_from_step keeping the entries of step_number itself
reset_from_step_inclusive(s, n) ==
    [s EXCEPT
        !.completed_steps = ListBelow(s.completed_steps, n + 1),
        !.failed_steps = ListBelow(s.failed_steps, n + 1),
        !.step_details = [k \in STEPS |-> IF k > n THEN "absent" ELSE s.step_details[k]],
        !.completed_components =
            [k \in STEPS |-> IF k > n THEN <<>> ELSE s.completed_components[k]],
        !.current_step = n,
        !.resume_available = (n > 1)]

\* reset_from_step rebuilding the ledger from _create_initial_status
reset_from_step_recreated(s, n) ==
    [create_initial_status(Snapshot(FALSE, {}, FALSE)) EXCEPT
        !.completed_steps = ListBelow(s.completed_steps, n),
        !.failed_steps = ListBelow(s.failed_steps, n),
        !.step_details = [k \in STEPS |-> IF k >= n THEN "absent" ELSE s.step_details[k]],
        !.completed_components =
            [k \in STEPS |-> IF k >= n THEN <<>> ELSE s.completed_components[k]],
        !.current_step = n,
        !.resume_available = (n > 1)]

\* StepTracker.reset_from_step
reset_from_step(s, n) ==
    [s EXCEPT
        !.completed_steps = ListBelow(s.completed_steps, n),
        !.failed_steps = ListBelow(s.failed_steps, n),
        !.step_details = [k \in STEPS |-> IF k >= n THEN "absent" ELSE s.step_details[k]],
        !.completed_components =
            [k \in STEPS |-> IF k >= n THEN <<>> ELSE s.completed_components[k]],
        !.current_step = n,
        !.resume_available = (n > 1)]

\* the loop of complete_installation: append every step not yet listed, in order
RECURSIVE AppendMissing(_, _)
AppendMissing(list, k) ==
    IF k > TotalSteps THEN list
    ELSE AppendMissing(IF ~IsIn(k, list) THEN Append(list, k) ELSE list, k + 1)

\* complete_installation without `failed_steps = []`
complete_installation_keeps_failures(s) ==
    [s EXCEPT !.completed_steps = AppendMissing(s.completed_steps, 1),
              !.current_step = TotalSteps,
              !.resume_available = FALSE,
              !.installation_complete = TRUE]

\* StepTracker.complete_installation
complete_installation(s) ==
    [s EXCEPT
        !.completed_steps = AppendMissing(s.completed_steps, 1),
        !.failed_steps = <<>>,
        !.current_step = TotalSteps,
        !.resume_available = FALSE,
        !.installation_complete = TRUE]

Op(name, arg) == [name |-> name, arg |-> arg]

\* arguments the callers pass: install_manager.main and selective_uninstaller.main
\* both reject a step outside 1..8; TotalSteps + 1 stands for an undefined step
\* handed to the operations that validate their argument themselves
CallArgs == 1..(TotalSteps + 1)

EmptySnapshot == Snapshot(FALSE, {}, FALSE)

----------------------------------------------------------------------------
(* Unified status record: InstallationStatusManager *)

STATUS_NO_INSTALLATION == "No Installation"
STATUS_PROCESSING == "AI_Environment_Processing_Installation"
STATUS_COMPLETED == "AI_Install_Completed"
STATUS_UNINSTALLING == "Uninstall_Processing"

\* _create_default_status
create_default_status ==
    [ai_environment |-> STATUS_NO_INSTALLATION,
     ai_lab |-> STATUS_NO_INSTALLATION,
     last_step_completed |-> 0]

\* set_ai_environment_status(status, install_path, version, last_step)
set_ai_environment_status(m, st, last_step) ==
    [m EXCEPT !.ai_environment = st, !.last_step_completed = last_step]

\* set_ai_lab_status(status, install_path, git_commit)
set_ai_lab_status(m, st) == [m EXCEPT !.ai_lab = st]

\* get_resume_info
get_resume_info(m) ==
    IF m.ai_environment = STATUS_UNINSTALLING \/ m.ai_lab = STATUS_UNINSTALLING
    THEN [can_resume |-> TRUE,
          ai_environment_resume |-> FALSE,
          ai_lab_resume |-> FALSE,
          ai_environment_last_step |-> 0,
          must_complete_uninstall |-> TRUE]
    ELSE [can_resume |-> (m.ai_environment = STATUS_PROCESSING \/ m.ai_lab = STATUS_PROCESSING),
          ai_environment_resume |-> (m.ai_environment = STATUS_PROCESSING),
          ai_lab_resume |-> (m.ai_lab = STATUS_PROCESSING),
          ai_environment_last_step |->
              IF m.ai_environment = STATUS_PROCESSING THEN m.last_step_completed ELSE 0,
          must_complete_uninstall |-> FALSE]

----------------------------------------------------------------------------
(* Orchestrators: MasterInstaller and InstallManager *)

\* MasterInstaller.install_ai_lab: Processing, then Completed when the clone succeeds
install_ai_lab(m, ok) ==
    IF ok THEN set_ai_lab_status(set_ai_lab_status(m, STATUS_PROCESSING), STATUS_COMPLETED)
    ELSE set_ai_lab_status(m, STATUS_PROCESSING)

\* no installer process has run yet
NoRun ==
    [active |-> FALSE, caller |-> "none", start_step |-> 0, cur |-> 0, pos |-> 0,
     invoked |-> {}, result |-> "none", failed_at |-> 0, outcome |-> "none"]

\* install_manager.main + InstallManager.__init__: a step outside 1..8 exits at once;
\* otherwise current_step = start_step - 1 and run_installation begins
NewRun(caller, start) ==
    [active |-> (start \in STEPS), caller |-> caller, start_step |-> start,
     cur |-> start - 1, pos |-> 1, invoked |-> {},
     result |-> IF start \in STEPS THEN "running" ELSE "failed", failed_at |-> 0,
     outcome |-> "none"]

\* what a collaborator (CondaInstaller.install, ...) can do when a step calls it
Outcomes == {"ok", "failure", "timeout", "raise"}

\* a step function whose except clause lets a timeout pass as success
step_succeeds_on_timeout(outcome) == outcome \in {"ok", "timeout"}

\* install_conda and the other step functions: the collaborator's result, or False from
\* the `except Exception` clause when it raised (a timeout is a raised TimeoutExpired)
step_succeeds(outcome) == outcome = "ok"

\* the test `if self.start_step <= k` in front of step k, with `<` for `<=`
ShouldRunStepStrict(start, k) == start < k

\* the test `if self.start_step <= k` in front of step k of run_installation
ShouldRunStep(start, k) == start <= k

\* the steps of run_installation still ahead that are not skipped
StepsAhead(r) == {k \in r.pos..TotalSteps : ShouldRunStep(r.start_step, k)}

NextStepOf(r) == CHOOSE k \in StepsAhead(r) : \A j \in StepsAhead(r) : k <= j

\* the steps after which run_installation rewrites the unified record
ReportedSteps == {1, 3, 6}

\* nothing is running and no parent is waiting to continue
Idle == ~run.active /\ run.result # "child_ok"

\* MasterInstaller.install_ai_environment up to the subprocess call
LaunchFromMaster(m, caller, start) ==
    /\ master' = set_ai_environment_status(m, STATUS_PROCESSING, start - 1)
    /\ run' = NewRun(caller, start)

\* MasterInstaller.run: refuses while an uninstall is pending, otherwise the menu
MasterRun(choice, drive_type, lab_ok) ==
    /\ Idle
    /\ launches < MaxLaunches
    /\ launches' = launches + 1
    /\ LET info == get_resume_info(master)
           refused == [NoRun EXCEPT !.caller = "master", !.result = "blocked"]
           nothing == [NoRun EXCEPT !.caller = "master", !.result = "failed"]
       IN  IF info.must_complete_uninstall
           THEN run' = refused /\ UNCHANGED master
           ELSE CASE choice = "1" /\ drive_type = "External" ->
                       \* do_fresh_installation: AI_Lab first, AI_Environment inside it
                       IF lab_ok
                       THEN LaunchFromMaster(install_ai_lab(master, TRUE), "fresh_ext", 1)
                       ELSE master' = install_ai_lab(master, FALSE) /\ run' = nothing
                  [] choice = "1" /\ drive_type = "Internal" ->
                       LaunchFromMaster(master, "fresh_int", 1)
                  [] choice = "2" ->
                       \* do_ailab_only_installation
                       IF master.ai_environment # STATUS_COMPLETED
                       THEN run' = nothing /\ UNCHANGED master
                       ELSE /\ master' = install_ai_lab(master, lab_ok)
                            /\ run' = [nothing EXCEPT !.result = IF lab_ok THEN "ok" ELSE "failed"]
                  [] choice = "4" ->
                       \* do_resume_installation
                       IF ~info.can_resume
                       THEN run' = nothing /\ UNCHANGED master
                       ELSE LET m1 == IF info.ai_lab_resume
                                      THEN install_ai_lab(master, lab_ok) ELSE master
                            IN  IF info.ai_lab_resume /\ ~lab_ok
                                THEN master' = m1 /\ run' = nothing
                                ELSE IF info.ai_environment_resume
                                THEN LaunchFromMaster(m1, "resume",
                                                      info.ai_environment_last_step + 1)
                                ELSE master' = m1 /\ run' = [nothing EXCEPT !.result = "ok"]
                  [] OTHER ->
                       \* exit, not implemented, or the pointer to the uninstaller
                       run' = nothing /\ UNCHANGED master
    /\ UNCHANGED <<ledgerVars, uninstallVars, durableVars, detectVars>>

\* master_installer.main with --auto-install: straight to install_ai_environment
AutoInstall ==
    /\ Idle
    /\ launches < MaxLaunches
    /\ launches' = launches + 1
    /\ LaunchFromMaster(master, "auto", 1)
    /\ UNCHANGED <<ledgerVars, uninstallVars, durableVars, detectVars>>

\* install_manager.main --step N, started by hand
DirectInstall(step) ==
    /\ Idle
    /\ launches < MaxLaunches
    /\ launches' = launches + 1
    /\ run' = NewRun("direct", step)
    /\ UNCHANGED <<master, ledgerVars, uninstallVars, durableVars, detectVars>>

\* run_installation: the next step that is not skipped, from print_progress to
\* complete_step / fail_step; after the last step, complete_installation
RunStep(outcome) ==
    /\ run.active
    /\ IF StepsAhead(run) = {}
       THEN /\ status' = complete_installation(status)
            /\ master' = set_ai_environment_status(master, STATUS_COMPLETED, TotalSteps)
            /\ run' = [run EXCEPT !.active = FALSE, !.pos = TotalSteps + 1,
                          !.result = IF run.caller = "direct" THEN "ok" ELSE "child_ok"]
       ELSE LET k == NextStepOf(run)
                cur1 == run.cur + 1
                started == start_step(status, cur1)
            IN  IF step_succeeds(outcome)
                THEN /\ status' = complete_step(started, k)
                     /\ master' = IF k \in ReportedSteps
                                  THEN set_ai_environment_status(master, STATUS_PROCESSING, k)
                                  ELSE master
                     /\ run' = [run EXCEPT !.cur = cur1, !.pos = k + 1,
                                           !.invoked = @ \cup {k}, !.outcome = outcome]
                ELSE /\ status' = fail_step(started, k)
                     /\ master' = IF k = 1
                                  THEN set_ai_environment_status(master, STATUS_PROCESSING, 0)
                                  ELSE master
                     /\ run' = [run EXCEPT !.active = FALSE, !.cur = cur1, !.pos = k,
                                           !.invoked = @ \cup {k},
                                           !.result = "failed", !.failed_at = k,
                                           !.outcome = outcome]
    /\ UNCHANGED <<hist, launches, uninstallVars, durableVars, detectVars>>

\* MasterInstaller after the installer subprocess returned 0: Completed, then AI_Lab
\* where it comes second
MasterContinue(lab_ok) ==
    /\ run.result = "child_ok"
    /\ LET m1 == set_ai_environment_status(master, STATUS_COMPLETED, TotalSteps)
       IN  IF run.caller \in {"fresh_int", "auto"}
           THEN /\ master' = install_ai_lab(m1, lab_ok)
                /\ run' = [run EXCEPT !.result = IF lab_ok THEN "ok" ELSE "failed"]
           ELSE /\ master' = m1
                /\ run' = [run EXCEPT !.result = "ok"]
    /\ UNCHANGED <<launches, ledgerVars, uninstallVars, durableVars, detectVars>>

\* the uninstaller marks a product as being uninstalled ("any state -> UninstallProcessing")
BeginUninstall(product) ==
    /\ Idle
    /\ master[product] \notin {STATUS_NO_INSTALLATION, STATUS_UNINSTALLING}
    /\ master' = [master EXCEPT ![product] = STATUS_UNINSTALLING]
    /\ UNCHANGED <<run, launches, ledgerVars, uninstallVars, durableVars, detectVars>>

\* the uninstaller finishes ("UninstallProcessing -> NoInstallation")
FinishUninstall(product) ==
    /\ Idle
    /\ master[product] = STATUS_UNINSTALLING
    /\ master' = [master EXCEPT ![product] = STATUS_NO_INSTALLATION]
    /\ UNCHANGED <<run, launches, ledgerVars, uninstallVars, durableVars, detectVars>>

----------------------------------------------------------------------------
(* Uninstallers: AutomatedUninstaller and SelectiveUninstaller *)

\* env_dirs of create_uninstall_plan
EnvDirs ==
    <<"Miniconda", "VSCode", "Ollama", "Models", "Tools", "Scripts", "Logs", "Projects",
      "downloads">>

\* env_metadata_files of create_uninstall_plan
EnvMetadataFiles ==
    <<"installation_status.json", "installation_info.json", "activate_ai_env.bat",
      "README.md", "validation_report.json">>

\* an entry of the AI_Environment root that neither list names
UnlistedName == "notes"

EntryNames == ListSet(EnvDirs) \cup ListSet(EnvMetadataFiles) \cup {UnlistedName}

\* paths are sequences of components; the empty path stands for None
NoPath == <<>>
LabPath == <<"AI_Lab">>
NestedEnvPath == <<"AI_Lab", "AI_Environment">>
RootEnvPath == <<"AI_Environment">>
CondaPath == <<"ProgramData", "miniconda3">>

\* Path.name
PathName(p) == p[Len(p)]

\* Path.relative_to succeeds
IsRelativeTo(p, base) == Len(base) <= Len(p) /\ SubSeq(p, 1, Len(base)) = base

PathsOf(base, names) == [i \in 1..Len(names) |-> Append(base, names[i])]

\* the names of a list that exist under the AI_Environment root
PresentOf(names, fsx, rootsx) ==
    IF rootsx.ai_environment = "dir"
    THEN SelectSeq(names, LAMBDA n : fsx[n] # "absent")
    ELSE <<>>

\* pre_state of create_uninstall_plan: the candidate's snapshot, empty without a ledger
PreState(info) ==
    IF info.has_status THEN info.status.pre_install_state ELSE EmptySnapshot

\* the branch of the env_dirs loop taken for a directory that exists
ClassifyEnvDir(n, existing_subdirs, opts) ==
    IF n \in existing_subdirs THEN "pre_existing"
    ELSE IF n = "Projects" /\ opts.keep_projects THEN "keep"
    ELSE "remove"

\* the catch-all scan without its is_file test
CatchAllAnyKind(fsx, rootsx, listed) ==
    IF rootsx.ai_environment = "dir" /\ fsx[UnlistedName] # "absent"
          /\ UnlistedName \notin listed
    THEN <<UnlistedName>> ELSE <<>>

\* the catch-all scan: entries in neither list, files only
CatchAll(fsx, rootsx, listed) ==
    IF rootsx.ai_environment = "dir" /\ fsx[UnlistedName] = "file"
          /\ UnlistedName \notin listed
    THEN <<UnlistedName>> ELSE <<>>

\* AutomatedUninstaller.create_uninstall_plan
create_uninstall_plan(info, opts, fsx, rootsx) ==
    LET env == info.ai_environment_path
        labp == info.ai_lab_path
        pre == PreState(info)
        kindOf(n) == ClassifyEnvDir(n, pre.existing_subdirs, opts)
        present == IF env # NoPath THEN PresentOf(EnvDirs, fsx, rootsx) ELSE <<>>
        pre_dirs == SelectSeq(present, LAMBDA n : kindOf(n) = "pre_existing")
        kept == SelectSeq(present, LAMBDA n : kindOf(n) = "keep")
        preserved == SelectSeq(present, LAMBDA n : kindOf(n) # "remove")
        removed == SelectSeq(present, LAMBDA n : kindOf(n) = "remove")
        meta == IF env # NoPath THEN PresentOf(EnvMetadataFiles, fsx, rootsx) ELSE <<>>
        rest == IF env # NoPath
                THEN CatchAll(fsx, rootsx, ListSet(removed \o meta \o preserved))
                ELSE <<>>
        conda == IF pre.allusers_exists THEN <<CondaPath>> ELSE <<>>
        lab_entry == IF labp # NoPath /\ rootsx.ai_lab = "dir" THEN <<labp>> ELSE <<>>
        order_env == IF env # NoPath THEN <<<<"ai_environment", env>>>> ELSE <<>>
        order_lab == IF labp # NoPath /\ info.install_type # "external_nested_partial"
                     THEN <<<<"ai_lab", labp>>>> ELSE <<>>
    IN  [ai_environment_path |-> env,
         ai_lab_path |-> labp,
         install_type |-> info.install_type,
         to_remove |-> PathsOf(env, removed \o meta \o rest) \o lab_entry,
         to_preserve |-> PathsOf(env, preserved) \o conda,
         backup_needed |-> IF opts.backup THEN PathsOf(env, kept) ELSE <<>>,
         pre_existing |-> PathsOf(env, pre_dirs) \o conda,
         removal_order |-> order_env \o order_lab,
         conda_env_to_remove |-> pre.allusers_exists /\ rootsx.ai2025]

\* the entries whose unlink, rmtree or rmdir is allowed to fail
StuckCandidates == {"activate_ai_env.bat", "Miniconda", "AI_Environment", "AI_Lab"}

StuckSets == {s \in SUBSET StuckCandidates : Cardinality(s) <= MaxStuck}

Erase(fsx, names) == [n \in EntryNames |-> IF n \in names THEN "absent" ELSE fsx[n]]

\* StepTracker._capture_pre_install_state on an existing AI_Environment root
capture_pre_install_state(fsx, rootsx) ==
    Snapshot(TRUE, {n \in EntryNames : fsx[n] = "dir"}, rootsx.conda_allusers)

\* AutomatedUninstaller.detect_from_ai_env_status and the candidate built from it
Candidate(install_type, env, labp, fsx, ledger) ==
    [ai_environment_path |-> env,
     ai_lab_path |-> labp,
     install_type |-> install_type,
     has_status |-> (env # NoPath /\ fsx["installation_status.json"] = "file"),
     status |-> ledger]

\* create_uninstall_plan as called by main on the selected candidate
CreateUninstallPlan ==
    /\ phase = "detected"
    /\ LET info == [install_info EXCEPT
                      !.has_status = (install_info.ai_environment_path # NoPath
                                        /\ fs["installation_status.json"] = "file"),
                      !.status = status]
       IN  /\ install_info' = info
           /\ plan' = create_uninstall_plan(info, options, fs, roots)
    /\ phase' = "planned"
    /\ UNCHANGED <<fs, roots, options, execution, ledgerVars, installVars, durableVars,
                   detectVars>>

\* execute_uninstall has not run
NotExecuted ==
    [log |-> <<>>, failed_count |-> 0, failed |-> {}, backup_dir |-> FALSE,
     at_backup |-> <<>>, issues |-> {},
     after_items |-> <<>>, env_root |-> "untouched", lab_root |-> "untouched"]

\* the working state of execute_uninstall: the disk and the report so far
Working(fsx, rootsx) ==
    [fs |-> fsx, roots |-> rootsx, report |-> NotExecuted]

\* the steps of execute_uninstall after the confirmation, with the backup taken last
ExecutionPhasesBackupLast ==
    <<"stop_processes", "remove_conda_environment", "remove_items", "remove_roots", "backup">>

\* the steps of execute_uninstall after the confirmation, in program order
ExecutionPhases ==
    <<"stop_processes", "remove_conda_environment", "backup", "remove_items", "remove_roots">>

Logged(w, name) == [w EXCEPT !.report.log = Append(@, name)]

\* Step 2: remove_conda_environment when the plan names an environment
RemoveCondaPhase(w, p) ==
    IF p.conda_env_to_remove
    THEN [Logged(w, "remove_conda_environment") EXCEPT !.roots.ai2025 = FALSE]
    ELSE w

\* Step 3 and backup_before_uninstall: copies the backup_needed paths that exist;
\* backup_ok is false when the copy raises and the method returns None
BackupPhase(w, p, opts, backup_ok) ==
    IF opts.backup /\ p.backup_needed # <<>>
    THEN [Logged(w, "backup") EXCEPT
            !.roots.backup =
                IF backup_ok
                THEN {PathName(q) : q \in {x \in ListSet(p.backup_needed) :
                                              w.roots.ai_environment = "dir"
                                              /\ w.fs[PathName(x)] # "absent"}}
                ELSE {},
            !.report.backup_dir = backup_ok,
            !.report.at_backup = [fs |-> w.fs, ai_environment |-> w.roots.ai_environment,
                                  ai_lab |-> w.roots.ai_lab]]
    ELSE w

\* the loop over to_remove with the entries it may not touch added
ItemsToRemoveAndPreserve(p) ==
    {q \in ListSet(p.to_remove) \cup ListSet(p.to_preserve) :
        q # p.ai_environment_path /\ q # p.ai_lab_path /\ q # CondaPath}

\* the entries the loop over to_remove handles: all but the two roots
ItemsToRemove(p) ==
    {q \in ListSet(p.to_remove) : q # p.ai_environment_path /\ q # p.ai_lab_path}

\* Step 4: unlink or rmtree every item that exists; one that cannot be removed is counted
RemoveItemsPhase(w, p, stuck) ==
    LET existing == IF w.roots.ai_environment = "dir"
                    THEN {PathName(q) : q \in {x \in ItemsToRemove(p) :
                                                  w.fs[PathName(x)] # "absent"}}
                    ELSE {}
        fs1 == Erase(w.fs, existing \ stuck)
    IN  [Logged(w, "remove_items") EXCEPT
            !.fs = fs1,
            !.report.failed_count = @ + Cardinality(existing \cap stuck),
            !.report.failed = @ \cup (existing \cap stuck),
            !.report.after_items = fs1]

\* what the root loop does with an existing AI_Environment root, a forced removal of a
\* root that is not empty included
EnvRootActionForced(empty, keep_projects) ==
    IF empty THEN "rmdir"
    ELSE IF keep_projects THEN "kept_preserved"
    ELSE "rmtree"

\* what the root loop does with an existing AI_Environment root
EnvRootAction(empty, keep_projects) ==
    IF empty THEN "rmdir"
    ELSE IF keep_projects THEN "kept_preserved"
    ELSE "left_not_empty"

\* the root loop never finds AI_Environment in the way of removing AI_Lab
LabNeverSkipped(env, labp, env_exists) == FALSE

\* AI_Lab is skipped: the planned AI_Environment is inside it and still exists
LabSkipped(env, labp, env_exists) ==
    env # NoPath /\ IsRelativeTo(env, labp) /\ env_exists

\* Step 5, component ai_environment
RemoveEnvRoot(w, p, opts, stuck) ==
    IF w.roots.ai_environment # "dir" THEN w
    ELSE LET empty == \A n \in EntryNames : w.fs[n] = "absent"
             action == EnvRootAction(empty, opts.keep_projects)
             w1 == Logged(w, "root_ai_environment")
         IN  IF action \in {"rmdir", "rmtree"}
             THEN IF "AI_Environment" \in stuck
                  THEN [w1 EXCEPT !.report.failed_count = @ + 1,
                                  !.report.failed = @ \cup {"AI_Environment"},
                                  !.report.env_root = "permission_error"]
                  ELSE [w1 EXCEPT !.fs = Erase(w.fs, EntryNames),
                                  !.roots.ai_environment = "absent",
                                  !.report.env_root = action]
             ELSE [w1 EXCEPT !.report.env_root = action]

\* Step 5, component ai_lab; removing AI_Lab removes an AI_Environment inside it
RemoveLabRoot(w, p, stuck) ==
    IF w.roots.ai_lab # "dir" THEN w
    ELSE LET env == p.ai_environment_path
             w1 == Logged(w, "root_ai_lab")
             inside_lab == IsRelativeTo(w.roots.env_path, LabPath)
         IN  IF LabSkipped(env, p.ai_lab_path, w.roots.ai_environment = "dir")
             THEN [w1 EXCEPT !.report.lab_root = "skipped"]
             ELSE IF "AI_Lab" \in stuck
             THEN [w1 EXCEPT !.report.failed_count = @ + 1,
                             !.report.failed = @ \cup {"AI_Lab"},
                             !.report.lab_root = "failed"]
             ELSE [w1 EXCEPT
                     !.roots.ai_lab = "absent",
                     !.roots.ai_environment = IF inside_lab THEN "absent" ELSE @,
                     !.fs = IF inside_lab THEN Erase(w.fs, EntryNames) ELSE @,
                     !.report.lab_root =
                         IF inside_lab /\ w.roots.ai_environment = "dir"
                         THEN "removed_with_ai_environment" ELSE "removed"]

\* Step 5: the roots in removal_order
RECURSIVE RemoveRootsPhase(_, _, _, _, _)
RemoveRootsPhase(w, order, p, opts, stuck) ==
    IF order = <<>> THEN w
    ELSE RemoveRootsPhase(
            IF Head(order)[1] = "ai_environment" THEN RemoveEnvRoot(w, p, opts, stuck)
            ELSE RemoveLabRoot(w, p, stuck),
            Tail(order), p, opts, stuck)

RunPhase(name, w, p, opts, stuck, backup_ok) ==
    IF name = "stop_processes" THEN Logged(w, "stop_processes")
    ELSE IF name = "remove_conda_environment" THEN RemoveCondaPhase(w, p)
    ELSE IF name = "backup" THEN BackupPhase(w, p, opts, backup_ok)
    ELSE IF name = "remove_items" THEN RemoveItemsPhase(w, p, stuck)
    ELSE RemoveRootsPhase(w, p.removal_order, p, opts, stuck)

RECURSIVE RunPhases(_, _, _, _, _, _)
RunPhases(phases, w, p, opts, stuck, backup_ok) ==
    IF phases = <<>> THEN w
    ELSE RunPhases(Tail(phases), RunPhase(Head(phases), w, p, opts, stuck, backup_ok),
                   p, opts, stuck, backup_ok)

\* a run that reports every run as a success
ExecuteSucceededAlways(failed_count) == TRUE

\* success = failed_count == 0
ExecuteSucceeded(failed_count) == failed_count = 0

\* AutomatedUninstaller.execute_uninstall on the plan
ExecuteUninstall(proceed, stuck, backup_ok) ==
    /\ phase = "planned"
    /\ IF ~options.auto /\ ~proceed
       THEN /\ phase' = "cancelled"
            /\ UNCHANGED <<fs, roots, execution>>
       ELSE LET w == RunPhases(ExecutionPhases, Working(fs, roots), plan, options, stuck,
                               backup_ok)
            IN  /\ fs' = w.fs
                /\ roots' = w.roots
                /\ execution' = w.report
                /\ phase' = IF ExecuteSucceeded(w.report.failed_count)
                            THEN "done" ELSE "failed"
    /\ UNCHANGED <<install_info, options, plan, ledgerVars, installVars, durableVars,
                   detectVars>>

\* Path.exists() for a path of the plan
PathExists(q, fsx, rootsx) ==
    IF q = LabPath THEN rootsx.ai_lab = "dir"
    ELSE IF q = CondaPath THEN rootsx.conda_allusers
    ELSE IF q \in {NestedEnvPath, RootEnvPath} THEN rootsx.ai_environment = "dir"
    ELSE rootsx.ai_environment = "dir" /\ fsx[PathName(q)] # "absent"

\* the issues about the two roots: an AI_Environment left with content other than Projects,
\* an AI_Lab left although no planned AI_Environment is inside it
RootIssues(p, fsx, rootsx) ==
    LET env == p.ai_environment_path
        labp == p.ai_lab_path
        remaining == {n \in EntryNames : fsx[n] # "absent"}
    IN  (IF env # NoPath /\ rootsx.ai_environment = "dir"
            /\ remaining # {} /\ "Projects" \notin remaining
         THEN {<<"unexpected content", env>>} ELSE {})
        \cup (IF labp # NoPath /\ rootsx.ai_lab = "dir"
                 /\ ~(env # NoPath /\ IsRelativeTo(env, labp))
              THEN {<<"still exists", labp>>} ELSE {})

\* verification that only looks for what should be gone
verify_removed_only(p, fsx, rootsx) ==
    {<<"Still exists", q>> : q \in {x \in ListSet(p.to_remove) : PathExists(x, fsx, rootsx)}}
    \cup RootIssues(p, fsx, rootsx)

\* AutomatedUninstaller.verify_complete_removal: the issues it finds; it returns True when
\* there is none
verify_complete_removal(p, fsx, rootsx) ==
    {<<"Still exists", q>> : q \in {x \in ListSet(p.to_remove) : PathExists(x, fsx, rootsx)}}
    \cup {<<"Preserved item missing", q>> :
             q \in {x \in ListSet(p.to_preserve) : ~PathExists(x, fsx, rootsx)}}
    \cup RootIssues(p, fsx, rootsx)

\* main after a successful execute_uninstall: verify_complete_removal(plan)
VerifyCompleteRemoval ==
    /\ phase = "done"
    /\ LET issues == verify_complete_removal(plan, fs, roots)
       IN  /\ execution' = [execution EXCEPT !.issues = issues]
           /\ phase' = IF issues = {} THEN "verified" ELSE "unverified"
    /\ UNCHANGED <<fs, roots, install_info, options, plan, ledgerVars, installVars,
                   durableVars, detectVars>>

\* a preserved entry is deleted by someone else between execute_uninstall and the
\* verification
PreservedItemLost(n) ==
    /\ phase = "done"
    /\ roots.ai_environment = "dir"
    /\ \A q \in ListSet(plan.to_preserve) : PathExists(q, fs, roots)
    /\ Append(plan.ai_environment_path, n) \in ListSet(plan.to_preserve)
    /\ fs' = Erase(fs, {n})
    /\ UNCHANGED <<roots, install_info, options, plan, phase, execution, ledgerVars,
                   installVars, durableVars, detectVars>>

\* the components each branch of uninstall_from_step removes
RemovedFromStep(from_step, fsx, stuck) ==
    (IF from_step <= 8
     THEN IF fsx["activate_ai_env.bat"] # "absent" /\ "activate_ai_env.bat" \in stuck
          THEN {}
          ELSE {"activate_ai_env.bat", "Projects", "Scripts"}
     ELSE {})
    \cup (IF from_step <= 7 THEN {"Ollama", "Models", "downloads"} ELSE {})
    \cup (IF from_step <= 5 THEN {"VSCode"} ELSE {})
    \cup (IF from_step <= 3 THEN {"Miniconda"} ELSE {})
    \cup (IF from_step <= 2 THEN {"Tools", "Logs"} ELSE {})

\* selective_uninstaller.main --from-step N: SelectiveUninstaller(ai_env_path),
\* then uninstall_from_step(N)
UninstallFromStep(from_step, stuck) ==
    /\ phase = "detected"
    /\ roots.ai_environment = "dir"
    /\ LET had_ledger == fs["installation_status.json"] = "file"
           loaded == IF had_ledger THEN status
                     ELSE create_initial_status(capture_pre_install_state(fs, roots))
           gone == RemovedFromStep(from_step, fs, stuck) \ stuck
           fs1 == Erase(fs, gone)
       IN  /\ status' = reset_from_step(loaded, from_step)
           /\ fs' = IF fs1["installation_status.json"] = "absent"
                    THEN [fs1 EXCEPT !["installation_status.json"] = "file"] ELSE fs1
    /\ phase' = "selected"
    /\ UNCHANGED <<hist, roots, install_info, options, plan, execution, installVars,
                   durableVars, detectVars>>

----------------------------------------------------------------------------
(* SpecLedger: any sequence of StepTracker calls on a fresh ledger *)

StartStep(n) ==
    /\ Len(hist) < MaxCalls
    /\ status' = start_step(status, n)
    /\ hist' = Append(hist, Op("start_step", n))
    /\ UNCHANGED <<installVars, uninstallVars, durableVars, detectVars>>

CompleteStep(n) ==
    /\ Len(hist) < MaxCalls
    /\ status' = complete_step(status, n)
    /\ hist' = Append(hist, Op("complete_step", n))
    /\ UNCHANGED <<installVars, uninstallVars, durableVars, detectVars>>

FailStep(n) ==
    /\ Len(hist) < MaxCalls
    /\ status' = fail_step(status, n)
    /\ hist' = Append(hist, Op("fail_step", n))
    /\ UNCHANGED <<installVars, uninstallVars, durableVars, detectVars>>

ResetFromStep(n) ==
    /\ Len(hist) < MaxCalls
    /\ status' = reset_from_step(status, n)
    /\ hist' = Append(hist, Op("reset_from_step", n))
    /\ UNCHANGED <<installVars, uninstallVars, durableVars, detectVars>>

CompleteInstallation ==
    /\ Len(hist) < MaxCalls
    /\ status' = complete_installation(status)
    /\ hist' = Append(hist, Op("complete_installation", 0))
    /\ UNCHANGED <<installVars, uninstallVars, durableVars, detectVars>>

IdleInstall ==
    /\ master = create_default_status
    /\ run = NoRun
    /\ launches = 0

IdleUninstall ==
    /\ fs = <<>>
    /\ roots = <<>>
    /\ install_info = <<>>
    /\ options = <<>>
    /\ plan = <<>>
    /\ phase = "idle"
    /\ execution = <<>>

IdleDurable ==
    /\ disk = <<>>
    /\ proc = <<>>

IdleDetect ==
    /\ machine = <<>>
    /\ installations = <<>>
    /\ session = <<>>

InitLedger ==
    /\ status = create_initial_status(EmptySnapshot)
    /\ hist = <<>>
    /\ IdleInstall
    /\ IdleUninstall
    /\ IdleDurable
    /\ IdleDetect

NextLedger ==
    \/ \E n \in CallArgs : StartStep(n)
    \/ \E n \in CallArgs : CompleteStep(n)
    \/ \E n \in CallArgs : FailStep(n)
    \/ \E n \in STEPS : ResetFromStep(n)
    \/ CompleteInstallation

SpecLedger == InitLedger /\ [][NextLedger]_vars

----------------------------------------------------------------------------
(* Spec: the installer entry points on a machine with nothing installed *)

Init ==
    /\ status = create_initial_status(EmptySnapshot)
    /\ hist = <<>>
    /\ IdleInstall
    /\ IdleUninstall
    /\ IdleDurable
    /\ IdleDetect

Next ==
    \/ \E choice \in {"0", "1", "2", "4"}, drive_type \in {"External", "Internal"},
          lab_ok \in BOOLEAN : MasterRun(choice, drive_type, lab_ok)
    \/ AutoInstall
    \/ \E step \in STEPS : DirectInstall(step)
    \/ \E outcome \in Outcomes : RunStep(outcome)
    \/ \E lab_ok \in BOOLEAN : MasterContinue(lab_ok)
    \/ \E product \in {"ai_environment", "ai_lab"} : BeginUninstall(product)
    \/ \E product \in {"ai_environment", "ai_lab"} : FinishUninstall(product)

Spec == Init /\ [][Next]_vars

----------------------------------------------------------------------------
(* SpecUninstall: the uninstallers on a finished installation *)

\* the directories that may have been in the AI_Environment root before the installation
PreExistingCandidates == {"Projects", "Tools", "validation_report.json", UnlistedName}

\* the top-level entries after a full installation over the pre-existing directories
InstalledEntries(pre, ledger_kept, report, other) ==
    [n \in EntryNames |->
        IF n \in pre THEN "dir"
        ELSE IF n \in ListSet(EnvDirs) THEN "dir"
        ELSE IF n = "installation_status.json"
             THEN (IF ledger_kept THEN "file" ELSE "absent")
        ELSE IF n = "validation_report.json" THEN report
        ELSE IF n = UnlistedName THEN other
        ELSE "file"]

\* the candidates main hands to create_uninstall_plan, with the layout on disk
Layouts ==
    {[install_type |-> "external_nested", env |-> NestedEnvPath, labp |-> LabPath,
      on_disk |-> NestedEnvPath, lab_kind |-> "dir"],
     [install_type |-> "internal_side_by_side", env |-> RootEnvPath, labp |-> LabPath,
      on_disk |-> RootEnvPath, lab_kind |-> "dir"],
     [install_type |-> "internal_env_only", env |-> RootEnvPath, labp |-> NoPath,
      on_disk |-> RootEnvPath, lab_kind |-> "absent"],
     [install_type |-> "user_specified", env |-> NoPath, labp |-> LabPath,
      on_disk |-> NestedEnvPath, lab_kind |-> "dir"]}

\* the unified record a finished installation leaves: run_installation and
\* install_ai_lab set each installed product to Completed
InstalledRecord(with_lab) ==
    set_ai_environment_status(
        IF with_lab THEN set_ai_lab_status(create_default_status, STATUS_COMPLETED)
        ELSE create_default_status,
        STATUS_COMPLETED, TotalSteps)

InitUninstall ==
    /\ hist = <<>>
    /\ run = NoRun
    /\ launches = 0
    /\ \E pre \in SUBSET PreExistingCandidates, ledger_kept \in BOOLEAN,
          report \in {"absent", "file"}, other \in {"absent", "file", "dir"},
          conda \in BOOLEAN, layout \in Layouts :
          /\ Cardinality(pre) <= MaxPreExisting
          /\ ledger_kept \/ (pre = {} /\ ~conda)
          /\ "validation_report.json" \in pre => report = "absent"
          /\ UnlistedName \in pre => other = "absent"
          /\ status = complete_installation(
                         create_initial_status(Snapshot(pre # {}, pre, conda)))
          /\ fs = InstalledEntries(pre, ledger_kept, report, other)
          /\ roots = [env_path |-> layout.on_disk, ai_environment |-> "dir",
                      ai_lab |-> layout.lab_kind, conda_allusers |-> conda,
                      ai2025 |-> TRUE, backup |-> {}]
          /\ install_info = Candidate(layout.install_type, layout.env, layout.labp,
                                      fs, status)
          /\ master = InstalledRecord(layout.lab_kind = "dir")
    /\ options \in [keep_projects : BOOLEAN, backup : BOOLEAN, auto : BOOLEAN]
    /\ plan = <<>>
    /\ phase = "detected"
    /\ execution = NotExecuted
    /\ IdleDurable
    /\ IdleDetect

NextUninstall ==
    \/ CreateUninstallPlan
    \/ \E proceed \in BOOLEAN, stuck \in StuckSets, backup_ok \in BOOLEAN :
          ExecuteUninstall(proceed, stuck, backup_ok)
    \/ VerifyCompleteRemoval
    \/ \E n \in EntryNames : PreservedItemLost(n)
    \/ \E from_step \in STEPS, stuck \in StuckSets : UninstallFromStep(from_step, stuck)

SpecUninstall == InitUninstall /\ [][NextUninstall]_vars

----------------------------------------------------------------------------
(* Properties of the step ledger, checked under SpecLedger *)


LastOp == hist[Len(hist)]

\* C4: get_resume_step() is the smallest member of failed_steps when there is
\* one, and current_step otherwise.
ResumeStepIsMinFailedElseCurrent ==
    LET r == get_resume_step(status)
        F == ListSet(status.failed_steps)
    IN  IF F # {} THEN r \in F /\ \A f \in F : r <= f
        ELSE r = status.current_step

\* C4 witness: one failed step f, current_step beyond it, and f is the resume step.
ResumeWitness ==
    \E f \in STEPS :
        /\ ListSet(status.failed_steps) = {f}
        /\ status.current_step > f
        /\ get_resume_step(status) = f

\* C7 (as claimed): no step number is in both completed_steps and failed_steps.
CompletedFailedDisjoint ==
    ListSet(status.completed_steps) \cap ListSet(status.failed_steps) = {}

\* an uninstall was left mid-flight: the latest of the reset / completion calls
\* rolled the ledger back to a step after the first, or a product of the
\* unified record is still being uninstalled
UninstallMidFlight ==
    \/ \E i \in 1..Len(hist) :
          /\ hist[i].name = "reset_from_step"
          /\ hist[i].arg > 1
          /\ \A j \in (i + 1)..Len(hist) :
                hist[j].name \notin {"reset_from_step", "complete_installation"}
    \/ master.ai_environment = "Uninstall_Processing"
    \/ master.ai_lab = "Uninstall_Processing"

\* C8 (as claimed): resume_available is true exactly when failed_steps is
\* non-empty or an uninstall was left mid-flight.
ResumeAvailableIffFailedOrUninstalling ==
    status.resume_available <=> (status.failed_steps # <<>> \/ UninstallMidFlight)

CompleteStepIdempotent ==
    \A n \in CallArgs :
        complete_step(complete_step(status, n), n) = complete_step(status, n)

\* C10 witness: complete_step(N) was called twice in a row on a defined step that
\* had failed before.
IdempotentWitness ==
    /\ Len(hist) >= 3
    /\ hist[Len(hist) - 2].name = "fail_step"
    /\ hist[Len(hist) - 1].name = "complete_step"
    /\ hist[Len(hist) - 1].arg = hist[Len(hist) - 2].arg
    /\ LastOp = hist[Len(hist) - 1]
    /\ LastOp.arg \in STEPS
    /\ IsIn(LastOp.arg, status.completed_steps)

----------------------------------------------------------------------------
(* Properties of the installer entry points, checked under Spec *)

UninstallPending ==
    master.ai_environment = STATUS_UNINSTALLING \/ master.ai_lab = STATUS_UNINSTALLING

\* C5 (as claimed): while either product is in Uninstall_Processing, no step of any
\* entry point sets a product's status to Processing and no installation step starts.
NoInstallWhileUninstallPending ==
    [][UninstallPending =>
          /\ master'.ai_environment = STATUS_PROCESSING
                => master.ai_environment = STATUS_PROCESSING
          /\ master'.ai_lab = STATUS_PROCESSING => master.ai_lab = STATUS_PROCESSING
          /\ run'.active => run.active
          /\ run'.invoked # run.invoked => run'.invoked = {}]_vars

\* C6: a fresh installation whose steps 1 and 2 succeed and whose step 3 fails leaves
\* get_resume_step() = 3; an installer started with start_step = s invokes no step
\* before s, and step s is the first step it invokes (s = 3: step 3 again, 1 and 2 not).
ResumeRerunsFailedStepOnly ==
    /\ (launches = 1 /\ run.start_step = 1 /\ run.result = "failed" /\ run.failed_at = 3)
          => /\ get_resume_step(status) = 3
             /\ status.completed_steps = <<1, 2>>
    /\ run.start_step \in STEPS
          => /\ \A k \in run.invoked : k >= run.start_step
             /\ (run.invoked # {} \/ run.result # "running")
                   => run.start_step \in run.invoked

\* C6 witness: the second launch, started at step 3 after a first launch that completed
\* steps 1 and 2 and failed step 3, has invoked step 3 and neither step 1 nor step 2.
ResumeRerunWitness ==
    /\ launches = 2
    /\ run.start_step = 3
    /\ 3 \in run.invoked
    /\ run.invoked \cap {1, 2} = {}
    /\ status.completed_steps = <<1, 2, 3>>
    /\ status.step_details[1] = "completed"
    /\ status.step_details[2] = "completed"

----------------------------------------------------------------------------
(* Properties of the uninstallers, checked under SpecUninstall *)

\* the ledger file is on disk, so its snapshot is the recorded pre-install state
LedgerOnDisk == fs["installation_status.json"] = "file"

RecordedSubdirs == status.pre_install_state.existing_subdirs

\* C1 (as claimed): no uninstall operation, automated or selective, removes a
\* directory whose name is in the existing_subdirs of the ledger's snapshot.
PreExistingDirsSurvive ==
    [][LedgerOnDisk =>
          \A n \in RecordedSubdirs : fs[n] = "dir" => fs'[n] = "dir"]_vars

PlanBuilt == phase = "planned"

PlannedSubdirs == PreState(install_info).existing_subdirs

\* C2 (as claimed): the plan's to_remove holds no path whose directory name is in
\* existing_subdirs, whatever the candidate and the options; a pre-existing Projects
\* is in to_preserve even when keep_projects is false.
PlanNeverRemovesPreExisting ==
    PlanBuilt =>
        /\ \A p \in ListSet(plan.to_remove) : PathName(p) \notin PlannedSubdirs
        /\ ("Projects" \in PlannedSubdirs /\ plan.ai_environment_path # NoPath)
              => IsIn(Append(plan.ai_environment_path, "Projects"), plan.to_preserve)

InToRemove(n) == IsIn(Append(plan.ai_environment_path, n), plan.to_remove)
InToPreserve(n) == IsIn(Append(plan.ai_environment_path, n), plan.to_preserve)
ListedNames == ListSet(EnvDirs) \cup ListSet(EnvMetadataFiles)

----------------------------------------------------------------------------
(* Further properties of the step ledger, checked under SpecLedger *)

\* the step numbers of a list below n, as a set
BelowSet(list, n) == {k \in ListSet(list) : k < n}

\* C11: after reset_from_step(N), current_step = N, no step >= N is in completed_steps
\* or failed_steps, step_details has no record for a step >= N, and the entries of the
\* steps below N (list membership, list order, step records) are as they were.
ResetFromStepPostState ==
    [][\A n \in STEPS :
          hist' = Append(hist, Op("reset_from_step", n)) =>
             /\ status'.current_step = n
             /\ \A k \in ListSet(status'.completed_steps) \cup ListSet(status'.failed_steps) :
                   k < n
             /\ \A k \in n..TotalSteps : status'.step_details[k] = "absent"
             /\ ListSet(status'.completed_steps) = BelowSet(status.completed_steps, n)
             /\ ListSet(status'.failed_steps) = BelowSet(status.failed_steps, n)
             /\ \A i, j \in 1..Len(status'.completed_steps) :
                   i < j => \E a, b \in 1..Len(status.completed_steps) :
                               /\ a < b
                               /\ status.completed_steps[a] = status'.completed_steps[i]
                               /\ status.completed_steps[b] = status'.completed_steps[j]
             /\ \A k \in 1..(n - 1) : status'.step_details[k] = status.step_details[k]]_vars

\* C11 witness: reset_from_step(2) on a ledger that had completed steps 1 and 2 keeps
\* step 1 and drops step 2.
ResetWitness ==
    /\ hist = <<Op("complete_step", 1), Op("complete_step", 2), Op("reset_from_step", 2)>>
    /\ status.completed_steps = <<1>>
    /\ status.current_step = 2

----------------------------------------------------------------------------
(* SpecDurable: the ledger file across writes, crashes and re-opens *)

\* longest sequence of StepTracker calls explored by SpecDurable
MaxDurableCalls == 2

\* the step numbers SpecDurable passes to the StepTracker operations
DurableArgs == {2, TotalSteps + 1}

\* the component names SpecDurable passes to complete_component
Components == {"directories"}

\* the AI_Environment root as it was before the installer was started
RootsBefore ==
    {[existed |-> FALSE, subdirs |-> {}], [existed |-> TRUE, subdirs |-> {"Miniconda"}]}

\* _capture_pre_install_state, reached after InstallManager.__init__ and StepTracker.__init__
\* have both run mkdir(exist_ok=True) on the root: it looks at the root as it is by then
capture_on_open(before) ==
    LET made == [existed |-> TRUE, subdirs |-> IF before.existed THEN before.subdirs ELSE {}]
    IN  Snapshot(made.existed, made.subdirs, FALSE)

\* what _capture_pre_install_state may find in the root (created by __init__ before it looks)
RootSnapshots == {capture_on_open(before) : before \in RootsBefore}

\* the default `{}` that _validate_status_structure gives a missing pre_install_state
EmptyPreState ==
    [ai_env_existed |-> FALSE, existing_subdirs |-> {}, allusers_exists |-> FALSE,
     missing |-> TRUE]

\* the last_completed_step values detect_installation_state reports in SpecDurable
DetectedSteps == {2, TotalSteps}

\* content of a file that holds no JSON object
NoContent == [current_step |-> 0]

\* installation_status.json: "absent", "invalid_json" (also a torn write), "non_object",
\* "ledger" (written by _save_status) or "scan" (written by update_status_file)
File(kind, content) == [kind |-> kind, content |-> content]

\* the state dict of detect_installation_state, as far as StepTracker reads it back
detect_installation_state(last_completed_step) ==
    [current_step |->
        IF last_completed_step = 0 \/ last_completed_step = TotalSteps THEN 1
        ELSE last_completed_step + 1]

\* _validate_status_structure on a JSON object: missing keys get their defaults
validate_status_structure(content, kind) ==
    IF kind = "ledger" THEN content
    ELSE [create_initial_status(EmptyPreState) EXCEPT !.current_step = content.current_step]

\* _load_status with _validate_status_structure called outside the try block
load_status_unguarded(d, snapshot) ==
    IF d.kind \in {"ledger", "scan"}
        THEN [raised |-> FALSE, status |-> validate_status_structure(d.content, d.kind)]
    ELSE IF d.kind = "non_object"
        THEN [raised |-> TRUE, status |-> create_initial_status(snapshot)]
    ELSE [raised |-> FALSE, status |-> create_initial_status(snapshot)]

\* StepTracker._load_status: every exception falls back to _create_initial_status
load_status(d, snapshot) ==
    IF d.kind \in {"ledger", "scan"}
        THEN [raised |-> FALSE, status |-> validate_status_structure(d.content, d.kind)]
    ELSE [raised |-> FALSE, status |-> create_initial_status(snapshot)]

\* StepTracker._save_status: a failed write is logged and leaves the file as it was
save_status(d, s, written) == IF written THEN File("ledger", s) ELSE d

\* StepTracker.complete_component
complete_component(s, n, c) ==
    IF n \in STEPS /\ s.step_details[n] # "absent" /\ ~IsIn(c, s.completed_components[n])
    THEN [s EXCEPT !.completed_components[n] = Append(s.completed_components[n], c)]
    ELSE s

NoProc ==
    [alive |-> FALSE, raised |-> FALSE, returned |-> "None", opened_on |-> "absent",
     captured |-> EmptySnapshot]

\* StepTracker.__init__ in a new process
OpenTracker(snapshot) ==
    /\ ~proc.alive
    /\ LET loaded == load_status(disk, snapshot)
       IN  /\ status' = IF loaded.raised THEN status ELSE loaded.status
           /\ proc' = [alive |-> ~loaded.raised, raised |-> loaded.raised,
                       returned |-> "None", opened_on |-> disk.kind,
                       captured |-> snapshot]
    /\ UNCHANGED <<hist, disk, installVars, uninstallVars, detectVars>>

\* a StepTracker call that returns: s1 is the ledger after it, saved tells whether it
\* reached _save_status, written whether that write succeeded
TrackerCall(name, n, s1, saved, returned, written) ==
    /\ proc.alive
    /\ Len(hist) < MaxDurableCalls
    /\ status' = s1
    /\ hist' = Append(hist, Op(name, n))
    /\ disk' = IF saved THEN save_status(disk, s1, written) ELSE disk
    /\ proc' = [proc EXCEPT !.returned = returned]
    /\ UNCHANGED <<installVars, uninstallVars, detectVars>>

BoolStr(b) == IF b THEN "True" ELSE "False"

StartStepSaved(n, written) ==
    TrackerCall("start_step", n, start_step(status, n), n \in STEPS,
                BoolStr(n \in STEPS), written)

CompleteStepSaved(n, written) ==
    TrackerCall("complete_step", n, complete_step(status, n), n \in STEPS,
                BoolStr(n \in STEPS), written)

FailStepSaved(n, written) ==
    TrackerCall("fail_step", n, fail_step(status, n), n \in STEPS,
                BoolStr(n \in STEPS), written)

CompleteComponentSaved(n, c, written) ==
    TrackerCall("complete_component", n, complete_component(status, n, c),
                complete_component(status, n, c) # status,
                BoolStr(n \in STEPS /\ status.step_details[n] # "absent"), written)

ResetFromStepSaved(n, written) ==
    TrackerCall("reset_from_step", n, reset_from_step(status, n), TRUE, "None", written)

CompleteInstallationSaved(written) ==
    TrackerCall("complete_installation", 0, complete_installation(status), TRUE, "None",
                written)

\* StepTracker.clear_status: unlinks the file and rebuilds the ledger in memory only
ClearStatus(snapshot) ==
    /\ proc.alive
    /\ Len(hist) < MaxDurableCalls
    /\ status' = create_initial_status(snapshot)
    /\ hist' = Append(hist, Op("clear_status", 0))
    /\ disk' = File("absent", NoContent)
    /\ proc' = [proc EXCEPT !.returned = "None"]
    /\ UNCHANGED <<installVars, uninstallVars, detectVars>>

\* InstallManager.verify_pre_install_state (run_installation with start_step == 1)
VerifyPreInstallState(snapshot, written) ==
    /\ proc.alive
    /\ IF status.pre_install_state = EmptyPreState
       THEN /\ status' = [status EXCEPT !.pre_install_state = snapshot]
            /\ disk' = save_status(disk, status', written)
       ELSE UNCHANGED <<status, disk>>
    /\ UNCHANGED <<hist, proc, installVars, uninstallVars, detectVars>>

\* StatusUpdater.update_status_file, run while no installer is running: asks before
\* overwriting unless forced
UpdateStatusFile(force, response, last_completed_step) ==
    /\ ~proc.alive
    /\ disk.kind # "absent" /\ ~force => response = "y"
    /\ disk' = File("scan", detect_installation_state(last_completed_step))
    /\ UNCHANGED <<status, hist, proc, installVars, uninstallVars, detectVars>>

\* what is left of a process that has ended: nothing of its memory
NoMemory == create_initial_status(EmptySnapshot)

\* the process ends between two StepTracker calls
Crash ==
    /\ proc.alive
    /\ proc' = NoProc
    /\ status' = NoMemory
    /\ UNCHANGED <<hist, disk, installVars, uninstallVars, detectVars>>

\* the process is killed inside json.dump: the file is left truncated
KilledWhileSaving ==
    /\ proc.alive
    /\ Len(hist) < MaxDurableCalls
    /\ disk' = File("invalid_json", NoContent)
    /\ proc' = NoProc
    /\ status' = NoMemory
    /\ UNCHANGED <<hist, installVars, uninstallVars, detectVars>>

InitDurable ==
    /\ status = NoMemory
    /\ hist = <<>>
    /\ IdleInstall
    /\ IdleUninstall
    /\ disk \in {File(kind, NoContent) : kind \in {"absent", "invalid_json", "non_object"}}
    /\ proc = NoProc
    /\ IdleDetect

NextDurable ==
    \/ \E snapshot \in RootSnapshots : OpenTracker(snapshot)
    \/ \E n \in DurableArgs, written \in BOOLEAN : StartStepSaved(n, written)
    \/ \E n \in DurableArgs, written \in BOOLEAN : CompleteStepSaved(n, written)
    \/ \E n \in DurableArgs, written \in BOOLEAN : FailStepSaved(n, written)
    \/ \E n \in DurableArgs, c \in Components, written \in BOOLEAN :
          CompleteComponentSaved(n, c, written)
    \/ \E n \in DurableArgs \cap STEPS, written \in BOOLEAN : ResetFromStepSaved(n, written)
    \/ \E written \in BOOLEAN : CompleteInstallationSaved(written)
    \/ \E snapshot \in RootSnapshots : ClearStatus(snapshot)
    \/ \E snapshot \in RootSnapshots, written \in BOOLEAN :
          VerifyPreInstallState(snapshot, written)
    \/ \E force \in BOOLEAN, response \in {"y", "n"}, last \in DetectedSteps :
          UpdateStatusFile(force, response, last)
    \/ Crash
    \/ KilledWhileSaving

SpecDurable == InitDurable /\ [][NextDurable]_vars

----------------------------------------------------------------------------
(* Properties of the ledger file, checked under SpecDurable *)

LedgerOps ==
    {"start_step", "complete_step", "fail_step", "complete_component", "reset_from_step",
     "complete_installation"}

\* C12: start_step, complete_step, fail_step, complete_component, reset_from_step and
\* complete_installation leave pre_install_state as it was, whatever their argument and
\* whether or not the write succeeds.
LedgerOpsKeepSnapshot ==
    [][(hist' # hist /\ hist'[Len(hist')].name \in LedgerOps)
          => status'.pre_install_state = status.pre_install_state]_vars

\* a snapshot listing a directory is still there after a component was recorded and the
\* ledger was reset
SnapshotKeptWitness ==
    /\ Len(hist) = MaxDurableCalls
    /\ hist[1] = Op("start_step", 2)
    /\ LastOp = Op("reset_from_step", 2)
    /\ proc.alive
    /\ status.pre_install_state = Snapshot(TRUE, {"Miniconda"}, FALSE)

\* the file is a ledger that holds a captured snapshot
SnapshotOnDisk(d) == d.kind = "ledger" /\ d.content.pre_install_state # EmptyPreState

\* C13: once a ledger file holding a snapshot is on disk, every step that leaves a
\* readable file there leaves a ledger with the same snapshot.
SnapshotWrittenOnce ==
    [][(SnapshotOnDisk(disk) /\ disk'.kind \in {"ledger", "scan"})
          => /\ SnapshotOnDisk(disk')
             /\ disk'.content.pre_install_state = disk.content.pre_install_state]_vars

----------------------------------------------------------------------------
(* Further properties of the installer runs, checked under Spec *)

\* C14: in a run launched with start_step = N, a step k >= N is listed as completed only
\* if this run completed it, and as failed only if this run failed at it.
ReentryResetsLaterEntries ==
    run.start_step \in STEPS =>
        \A k \in run.start_step..TotalSteps :
            /\ IsIn(k, status.completed_steps) =>
                  \/ k \in run.invoked /\ k # run.failed_at
                  \/ run.pos = TotalSteps + 1
            /\ IsIn(k, status.failed_steps) => k = run.failed_at

----------------------------------------------------------------------------
(* Durability of the ledger, checked under SpecDurable *)

\* C15: while start_step(N), for a defined N, is the last call that returned, the ledger
\* file shows current_step = N with step N in_progress, and so does the ledger of any
\* process holding it, the one that wrote it or one that re-opened it after a crash.
StartStepMarkerIsDurable ==
    (hist # <<>> /\ LastOp.name = "start_step" /\ LastOp.arg \in STEPS) =>
        /\ disk.kind = "ledger"
        /\ disk.content.current_step = LastOp.arg
        /\ disk.content.step_details[LastOp.arg] = "in_progress"
        /\ proc.alive =>
              /\ status.current_step = LastOp.arg
              /\ status.step_details[LastOp.arg] = "in_progress"

\* C16: whenever a StepTracker operation has returned without reporting failure, the
\* ledger file equals the ledger in memory.
EveryMutationIsDurable ==
    [][(hist' # hist /\ proc'.returned # "False")
          => disk'.kind = "ledger" /\ disk'.content = status']_vars

\* C17: opening a StepTracker on a file that is torn, not JSON or not a JSON object never
\* raises and yields the default ledger: current_step 1, no completed or failed steps,
\* resume_available false, and the snapshot captured at that moment.
CorruptLedgerRecovery ==
    [][(~proc.alive /\ proc' # proc /\ disk.kind \in {"invalid_json", "non_object"})
          => /\ proc'.alive /\ ~proc'.raised
             /\ status'.current_step = 1
             /\ status'.completed_steps = <<>>
             /\ status'.failed_steps = <<>>
             /\ status'.resume_available = FALSE
             /\ status'.pre_install_state = proc'.captured
             /\ proc'.captured \in RootSnapshots
             /\ status' = create_initial_status(proc'.captured)]_vars

\* a ledger torn by a kill after start_step(2) was saved, opened again by a new process
TornLedgerWitness ==
    /\ hist = <<Op("start_step", 2)>>
    /\ proc.alive
    /\ proc.opened_on = "invalid_json"
    /\ disk.kind = "invalid_json"
    /\ status = create_initial_status(Snapshot(TRUE, {"Miniconda"}, FALSE))

UninstallProcessingIsTerminalBlocking ==
    [][\A product \in {"ai_environment", "ai_lab"} :
          master[product] = STATUS_UNINSTALLING
             => master'[product] \in {STATUS_UNINSTALLING, STATUS_NO_INSTALLATION}]_vars

----------------------------------------------------------------------------
(* Further properties of the uninstallers, checked under SpecUninstall *)

\* C20: once the automated uninstaller has executed a plan without a failure, every
\* product the plan was for has status No Installation in the unified record.
UninstallOutcomeIsRecorded ==
    phase = "done" =>
        /\ plan.ai_environment_path # NoPath
              => master.ai_environment = STATUS_NO_INSTALLATION
        /\ plan.ai_lab_path # NoPath => master.ai_lab = STATUS_NO_INSTALLATION

----------------------------------------------------------------------------
(* The unified record during a run, checked under Spec *)

\* C21: between complete_step(k) and the start of the next step, the unified record has
\* last_step_completed = k.
StatusRecordFollowsEveryStep ==
    (run.active /\ run.outcome = "ok" /\ run.pos \in 2..TotalSteps)
        => master.last_step_completed = run.pos - 1

----------------------------------------------------------------------------
(* SpecDetect: detection and selection of the installations to remove *)

\* largest number of installation directories present on the volumes
MaxSites == 3

\* a path on a volume; drive keeps the case it was written with
DPath(d, parts) == [drive |-> d, parts |-> parts]

\* Python's None for a path
NoneP == DPath("", <<>>)

\* the volume a drive letter names, whatever its case
Upper(d) == IF d = "d" THEN "D" ELSE d

\* normalize_path with the drive letter left as written
normalize_path_case_kept(p) == p

\* normalize_path of detect_all_installations: separators unified and case folded, so
\* d:\AI_Lab and D:\AI_Lab compare equal
normalize_path(p) == IF p = NoneP THEN NoneP ELSE DPath(Upper(p.drive), p.parts)

\* str(path.drive): the drive as written in the path
DriveOf(p) == p.drive

\* the places scan_drives_for_installations looks at on one drive, in its order:
\* first the AI_Lab and AI_Environment places, then those under the common subdirectories
ScanLabPlaces == <<<<"AI_Lab">>, <<"Downloads", "AI_Lab">>>>
ScanEnvPlaces == <<<<"AI_Lab", "AI_Environment">>, <<"AI_Environment">>,
                   <<"Downloads", "AI_Environment">>>>

\* the drive letters that exist, in the order of string.ascii_uppercase
ScannedDrives == <<"D", "E", "F">>

\* the installation directories that may exist (each passes its _verify_ test, except
\* that the one on E is in a place the scan does not look at)
PossibleSites ==
    {DPath(d, parts) : d \in {"D", "F"},
                       parts \in {<<"AI_Lab">>, <<"AI_Lab", "AI_Environment">>,
                                  <<"AI_Environment">>}}
    \cup {DPath("D", <<"Downloads", "AI_Environment">>),
          DPath("E", <<"Work", "AI_Lab", "AI_Environment">>)}

\* install_path values the installers may have written into the unified record
RecordedEnvPaths ==
    {NoneP, DPath("d", <<"AI_Lab", "AI_Environment">>),
     DPath("E", <<"Work", "AI_Lab", "AI_Environment">>)}
    \cup {DPath(d, parts) : d \in {"D", "F"},
                            parts \in {<<"AI_Lab", "AI_Environment">>, <<"AI_Environment">>}}

RecordedLabPaths == {NoneP, DPath("D", <<"AI_Lab">>), DPath("F", <<"AI_Lab">>)}

\* installation_path values of the legacy installation_status.json in the installer directory
LegacyPaths == {NoneP, DPath("D", <<"AI_Environment">>)}

\* env_path.relative_to(lab_path) succeeds (Windows paths compare without case)
IsInside(env_path, lab_path) ==
    /\ Upper(env_path.drive) = Upper(lab_path.drive)
    /\ Len(lab_path.parts) <= Len(env_path.parts)
    /\ SubSeq(env_path.parts, 1, Len(lab_path.parts)) = lab_path.parts

\* Path.exists(): the directory is an installation directory or holds one
Exists(p, present) == p # NoneP /\ \E q \in present : IsInside(q, p)

\* AutomatedUninstaller.detect_from_status_file: the pair of paths, or None as <<>>
detect_from_status_file(m) ==
    LET ai_env_path == IF Exists(m.record_env, m.present) THEN m.record_env ELSE NoneP
        ai_lab_path == IF Exists(m.record_lab, m.present) THEN m.record_lab ELSE NoneP
    IN  IF ai_env_path # NoneP \/ ai_lab_path # NoneP THEN <<ai_env_path, ai_lab_path>>
        ELSE IF Exists(m.legacy, m.present) THEN <<m.legacy, NoneP>>
        ELSE <<>>

\* the paths of one kind found on the drives, drive by drive in scan order
RECURSIVE ScanPlaces(_, _, _, _)
ScanPlaces(drives, places, i, present) ==
    IF drives = <<>> THEN <<>>
    ELSE IF i > Len(places) THEN ScanPlaces(Tail(drives), places, 1, present)
    ELSE LET p == DPath(Head(drives), places[i])
         IN  (IF p \in present THEN <<p>> ELSE <<>>)
                \o ScanPlaces(drives, places, i + 1, present)

\* AutomatedUninstaller.scan_drives_for_installations
scan_drives_for_installations(m) ==
    [env |-> ScanPlaces(ScannedDrives, ScanEnvPlaces, 1, m.present),
     lab |-> ScanPlaces(ScannedDrives, ScanLabPlaces, 1, m.present)]

\* a lookup that never finds the group of a drive
KeyIndexNever(groups, key) == 0

\* position of the group with this key in installation_groups, 0 when there is none
KeyIndex(groups, key) ==
    IF \E i \in 1..Len(groups) : groups[i].key = key
    THEN CHOOSE i \in 1..Len(groups) : groups[i].key = key
    ELSE 0

Group(key, env, lab, method, primary) ==
    [key |-> key, ai_environment_path |-> env, ai_lab_path |-> lab,
     detection_method |-> method, is_primary |-> primary]

\* the loop over scanned_env_list
RECURSIVE AddScannedEnv(_, _, _)
AddScannedEnv(groups, list, primary_env) ==
    IF list = <<>> THEN groups
    ELSE LET env_path == Head(list)
             key == DriveOf(env_path)
             i == KeyIndex(groups, key)
             next ==
                 IF primary_env # NoneP
                    /\ normalize_path(primary_env) = normalize_path(env_path)
                 THEN groups
                 ELSE IF i = 0
                 THEN Append(groups, Group(key, env_path, NoneP, "drive_scan", FALSE))
                 ELSE [groups EXCEPT ![i].ai_environment_path = env_path]
         IN  AddScannedEnv(next, Tail(list), primary_env)

\* the loop over scanned_lab_list
RECURSIVE AddScannedLab(_, _, _)
AddScannedLab(groups, list, primary_lab) ==
    IF list = <<>> THEN groups
    ELSE LET lab_path == Head(list)
             key == DriveOf(lab_path)
             i == KeyIndex(groups, key)
             next ==
                 IF primary_lab # NoneP
                    /\ normalize_path(primary_lab) = normalize_path(lab_path)
                 THEN groups
                 ELSE IF i = 0
                 THEN Append(groups, Group(key, NoneP, lab_path, "drive_scan", FALSE))
                 ELSE [groups EXCEPT ![i].ai_lab_path = lab_path]
         IN  AddScannedLab(next, Tail(list), primary_lab)

\* the install_type detect_all_installations gives a group
InstallType(env_path, lab_path) ==
    IF env_path # NoneP /\ lab_path # NoneP
    THEN (IF IsInside(env_path, lab_path) THEN "external_nested"
          ELSE "internal_side_by_side")
    ELSE IF env_path # NoneP
    THEN (IF \E i \in 1..Len(env_path.parts) : env_path.parts[i] = "AI_Lab"
          THEN "external_nested_partial" ELSE "internal_env_only")
    ELSE IF lab_path # NoneP THEN "lab_only"
    ELSE "unknown"

\* AutomatedUninstaller.detect_all_installations
detect_all_installations(m) ==
    LET primary_result == detect_from_status_file(m)
        primary_env_path == IF primary_result = <<>> THEN NoneP ELSE primary_result[1]
        primary_lab_path == IF primary_result = <<>> THEN NoneP ELSE primary_result[2]
        scanned == scan_drives_for_installations(m)
        first == IF primary_env_path # NoneP
                 THEN <<Group(DriveOf(primary_env_path), primary_env_path,
                              primary_lab_path, "status_file", TRUE)>>
                 ELSE IF primary_lab_path # NoneP
                 THEN <<Group(DriveOf(primary_lab_path), primary_env_path,
                              primary_lab_path, "status_file", TRUE)>>
                 ELSE <<>>
        groups == AddScannedLab(AddScannedEnv(first, scanned.env, primary_env_path),
                                scanned.lab, primary_lab_path)
    IN  [i \in 1..Len(groups) |->
            [ai_environment_path |-> groups[i].ai_environment_path,
             ai_lab_path |-> groups[i].ai_lab_path,
             install_type |-> InstallType(groups[i].ai_environment_path,
                                          groups[i].ai_lab_path),
             detection_method |-> groups[i].detection_method,
             is_primary |-> groups[i].is_primary]]

\* the uninstaller before it has looked for anything
NewSession(auto, dry_run) ==
    [stage |-> "start", auto |-> auto, dry_run |-> dry_run, reprompted |-> FALSE,
     selected |-> 0,
     uninstall_all |-> FALSE, planned |-> <<>>, executed |-> <<>>, exit_code |-> -1]

\* what the user may type at the menu
Choices == {"0", "A", "1", "2", "3", "x"}

\* int(choice) - 1 is a valid index: the 1-based position chosen, 0 when the input is invalid
ChosenIndex(choice, n) ==
    IF choice = "1" /\ n >= 1 THEN 1
    ELSE IF choice = "2" /\ n >= 2 THEN 2
    ELSE IF choice = "3" /\ n >= 3 THEN 3
    ELSE 0

\* detect_installation_path up to the call of select_installation
DetectAll ==
    /\ session # <<>> /\ session.stage = "start"
    /\ installations' = detect_all_installations(machine)
    /\ session' = IF installations' = <<>>
                  THEN [session EXCEPT !.stage = "finished", !.exit_code = 1]
                  ELSE [session EXCEPT !.stage = "select"]
    /\ UNCHANGED <<machine, ledgerVars, installVars, uninstallVars, durableVars>>

\* select_installation: one answer of the user; the first candidate without a menu when
\* there is only one or in auto mode
SelectInstallation(choice) ==
    /\ session # <<>> /\ session.stage = "select"
    /\ session' =
         IF Len(installations) = 1 \/ session.auto
         THEN [session EXCEPT !.stage = "selected", !.selected = 1]
         ELSE IF choice = "0"
         THEN [session EXCEPT !.stage = "finished", !.exit_code = 1]
         ELSE IF choice = "A"
         THEN [session EXCEPT !.stage = "all", !.uninstall_all = TRUE]
         ELSE IF ChosenIndex(choice, Len(installations)) # 0
         THEN [session EXCEPT !.stage = "selected",
                              !.selected = ChosenIndex(choice, Len(installations))]
         ELSE [session EXCEPT !.reprompted = TRUE]
    /\ UNCHANGED <<machine, installations, ledgerVars, installVars, uninstallVars,
                   durableVars>>

\* a main that goes on to execute_uninstall whatever --dry-run says
RunsExecuteAlways(dry_run) == TRUE

\* main goes on to execute_uninstall: only without --dry-run, which returns 0 after
\* printing the plan
RunsExecute(dry_run) == ~dry_run

\* the installation directories a successful uninstall of a candidate removes
RemovedSites(c, present) ==
    {q \in present :
        \/ (c.ai_environment_path # NoneP /\ IsInside(q, c.ai_environment_path))
        \/ (c.ai_lab_path # NoneP /\ IsInside(q, c.ai_lab_path))}

\* main, single installation: plan, then (unless --dry-run) execute and verify
UninstallSelected(success) ==
    /\ session # <<>> /\ session.stage = "selected"
    /\ IF RunsExecute(session.dry_run)
       THEN /\ session' = [session EXCEPT !.stage = "finished",
                                          !.planned = <<session.selected>>,
                                          !.executed = <<session.selected>>,
                                          !.exit_code = IF success THEN 0 ELSE 1]
            /\ machine' =
                 IF success
                 THEN [machine EXCEPT
                         !.present = @ \ RemovedSites(installations[session.selected], @)]
                 ELSE machine
       ELSE /\ session' = [session EXCEPT !.stage = "finished",
                                          !.planned = <<session.selected>>,
                                          !.exit_code = 0]
            /\ UNCHANGED machine
    /\ UNCHANGED <<installations, ledgerVars, installVars, uninstallVars, durableVars>>

\* main, "uninstall all": install['path'] raises KeyError for the first candidate,
\* before its plan is made; the handler at the end of main turns it into exit code 1
UninstallAll ==
    /\ session # <<>> /\ session.stage = "all"
    /\ session' = [session EXCEPT !.stage = "finished", !.exit_code = 1]
    /\ UNCHANGED <<machine, installations, ledgerVars, installVars, uninstallVars,
                   durableVars>>

InitDetect ==
    /\ status = <<>> /\ hist = <<>>
    /\ IdleInstall /\ IdleUninstall /\ IdleDurable
    /\ \E present \in SUBSET PossibleSites, record_env \in RecordedEnvPaths,
          record_lab \in RecordedLabPaths, legacy \in LegacyPaths :
            /\ Cardinality(present) <= MaxSites
            /\ machine = [present |-> present, record_env |-> record_env,
                          record_lab |-> record_lab, legacy |-> legacy]
    /\ installations = <<>>
    /\ \E auto \in BOOLEAN, dry_run \in BOOLEAN : session = NewSession(auto, dry_run)

NextDetect ==
    \/ DetectAll
    \/ \E choice \in Choices : SelectInstallation(choice)
    \/ \E success \in BOOLEAN : UninstallSelected(success)
    \/ UninstallAll

SpecDetect == InitDetect /\ [][NextDetect]_vars

----------------------------------------------------------------------------
(* Detection and selection, checked under SpecDetect *)

\* detection has run in this session and the machine is still as it was detected
Detected == session # <<>> /\ session.stage # "start" /\ session.executed = <<>>

\* the volumes a candidate has a path on
VolumesOf(c) ==
    {Upper(p.drive) : p \in {c.ai_environment_path, c.ai_lab_path} \ {NoneP}}

\* C22: detection returns at most one candidate per volume (an AI_Environment and an AI_Lab
\* on the same volume are in one candidate), and when the trusted record yields an existing
\* path its candidate is the first one and the only one with is_primary.
OneCandidatePerVolume ==
    Detected =>
        /\ \A i, j \in 1..Len(installations) :
              i # j => VolumesOf(installations[i]) \cap VolumesOf(installations[j]) = {}
        /\ detect_from_status_file(machine) # <<>> =>
              /\ installations # <<>>
              /\ installations[1].is_primary
              /\ installations[1].detection_method = "status_file"
              /\ \A i \in 2..Len(installations) : ~installations[i].is_primary

\* the paths the volume scan found
ScannedPaths ==
    LET s == scan_drives_for_installations(machine)
    IN  {s.env[i] : i \in 1..Len(s.env)} \cup {s.lab[i] : i \in 1..Len(s.lab)}

ScannedVolumes == {Upper(p.drive) : p \in ScannedPaths}

\* the existing paths the trusted record yields
TrustedPaths ==
    LET r == detect_from_status_file(machine)
    IN  IF r = <<>> THEN {} ELSE {r[1], r[2]} \ {NoneP}

\* the candidates that have a path on one of the scanned volumes
CandidatesOnScannedVolumes ==
    {i \in 1..Len(installations) : VolumesOf(installations[i]) \cap ScannedVolumes # {}}

\* exactly one candidate per scanned volume, each found by the scan and not primary
ScanCandidatesOnly ==
    /\ Cardinality(CandidatesOnScannedVolumes) = 2
    /\ \A v \in ScannedVolumes :
          \E i \in CandidatesOnScannedVolumes : VolumesOf(installations[i]) = {v}
    /\ \A i \in CandidatesOnScannedVolumes :
          /\ ~installations[i].is_primary
          /\ installations[i].detection_method = "drive_scan"

MenuShown == session # <<>> /\ session.stage = "select" /\ Len(installations) > 1 /\ ~session.auto

\* C24: with several candidates and no auto mode the menu offers cancel and operate-on-all
\* and asks again after an invalid input; after operate-on-all every detected candidate is
\* planned and executed, in the order detected.
UninstallAllProcessesEveryCandidate ==
    [][/\ (MenuShown /\ session'.stage = "select") => session'.reprompted
       /\ (session # <<>> /\ session.uninstall_all /\ session'.stage = "finished")
             => /\ session'.planned = [i \in 1..Len(installations) |-> i]
                /\ session'.executed = session'.planned]_vars

----------------------------------------------------------------------------
(* execute_uninstall and verify_complete_removal, checked under SpecUninstall *)

\* this step is a run of execute_uninstall that got past the confirmation
Executes == phase = "planned" /\ phase' \in {"done", "failed"}

\* execute_uninstall has run on the plan
Executed == phase \in {"done", "failed", "verified", "unverified"}

\* the plan has both roots, AI_Environment inside AI_Lab
PlanIsNested ==
    /\ plan.ai_environment_path # NoPath
    /\ plan.ai_lab_path # NoPath
    /\ IsRelativeTo(plan.ai_environment_path, plan.ai_lab_path)

\* position of a name in a log, 0 when it is not there
LogIndex(log, name) ==
    IF \E i \in 1..Len(log) : log[i] = name
    THEN CHOOSE i \in 1..Len(log) : log[i] = name
    ELSE 0

ExpectedLog(p, opts) ==
    <<"stop_processes">>
    \o (IF p.conda_env_to_remove THEN <<"remove_conda_environment">> ELSE <<>>)
    \o (IF opts.backup /\ p.backup_needed # <<>> THEN <<"backup">> ELSE <<>>)
    \o <<"remove_items">>

\* C26: every run past the confirmation stops the processes, then removes the runtime
\* environment (if planned), then takes the backup (if requested), then deletes the to_remove
\* entries, then handles the roots in removal_order; when the backup is taken nothing of
\* to_remove and no root has been deleted yet.
PhasesRunInFixedOrder ==
    [][Executes =>
          LET log == execution'.log
              head == ExpectedLog(plan, options)
          IN  /\ Len(log) >= Len(head)
              /\ SubSeq(log, 1, Len(head)) = head
              /\ \A i \in (Len(head) + 1)..Len(log) :
                    log[i] \in {"root_ai_environment", "root_ai_lab"}
              /\ LogIndex(log, "backup") # 0 =>
                    /\ \A q \in ListSet(plan.to_remove) :
                          q \notin {plan.ai_environment_path, plan.ai_lab_path}
                             => execution'.at_backup.fs[PathName(q)] = fs[PathName(q)]
                    /\ execution'.at_backup.ai_environment = roots.ai_environment
                    /\ execution'.at_backup.ai_lab = roots.ai_lab]_vars

\* a run with every phase: runtime environment removed, backup taken, items deleted, a root
\* handled
EveryPhaseRanWitness ==
    /\ Executed
    /\ LogIndex(execution.log, "remove_conda_environment") # 0
    /\ LogIndex(execution.log, "backup") # 0
    /\ LogIndex(execution.log, "root_ai_environment") # 0
    /\ \E n \in EntryNames : execution.at_backup.fs[n] # "absent" /\ fs[n] = "absent"

\* the names of the backup_needed paths
BackupNeededNames == {PathName(q) : q \in ListSet(plan.backup_needed)}

\* C27: with options.backup set, execute_uninstall deletes a backup_needed path only if its
\* backup copy was written first; after a failed backup no backup_needed path is deleted.
BackupBeforeDelete ==
    [][(Executes /\ options.backup) =>
          \A n \in BackupNeededNames :
              (fs[n] # "absent" /\ fs'[n] = "absent")
                 => (execution'.backup_dir /\ n \in roots'.backup)]_vars

\* a run whose backup failed: the rest is deleted, the backup_needed path is still there
FailedBackupWitness ==
    /\ Executed /\ options.backup
    /\ LogIndex(execution.log, "backup") # 0
    /\ ~execution.backup_dir
    /\ roots.backup = {}
    /\ BackupNeededNames # {}
    /\ \A n \in BackupNeededNames : fs[n] # "absent"
    /\ fs["Miniconda"] = "absent"

FailuresAreCountedNotFatal ==
    [][Executes =>
          /\ \A q \in ItemsToRemove(plan) :
                fs'[PathName(q)] = "absent" \/ PathName(q) \in execution'.failed
          /\ execution'.failed_count = Cardinality(execution'.failed)
          /\ (/\ plan.ai_environment_path # NoPath
              /\ roots.ai_environment = "dir")
                => LogIndex(execution'.log, "root_ai_environment") # 0
          /\ (/\ LogIndex(plan.removal_order, <<"ai_lab", plan.ai_lab_path>>) # 0
              /\ roots.ai_lab = "dir")
                => LogIndex(execution'.log, "root_ai_lab") # 0
          /\ (phase' = "done") <=> (execution'.failed_count = 0)]_vars

\* an entry could not be deleted: the others are gone, AI_Lab beside it was removed, and the
\* run reports a failure
OneFailureRestRemovedWitness ==
    /\ phase = "failed"
    /\ execution.failed = {"Miniconda"}
    /\ fs["Miniconda"] # "absent"
    /\ fs["VSCode"] = "absent"
    /\ fs["activate_ai_env.bat"] = "absent"
    /\ execution.lab_root = "removed"

\* this step is a call of verify_complete_removal
Verifies == phase = "done" /\ phase' \in {"verified", "unverified"}

\* C30: verify_complete_removal returns true only if every to_remove path is gone and every
\* to_preserve path exists; a to_remove path that exists or a to_preserve path that is
\* missing makes it return false with an issue that names the path.
VerifyFindsEveryDiscrepancy ==
    [][Verifies =>
          /\ phase' = "verified" =>
                /\ \A q \in ListSet(plan.to_remove) : ~PathExists(q, fs, roots)
                /\ \A q \in ListSet(plan.to_preserve) : PathExists(q, fs, roots)
          /\ \A q \in ListSet(plan.to_remove) :
                PathExists(q, fs, roots)
                   => (phase' = "unverified" /\ <<"Still exists", q>> \in execution'.issues)
          /\ \A q \in ListSet(plan.to_preserve) :
                ~PathExists(q, fs, roots)
                   => /\ phase' = "unverified"
                      /\ <<"Preserved item missing", q>> \in execution'.issues]_vars

\* a verification that failed only because a preserved entry is missing
PreservedMissingWitness ==
    /\ phase = "unverified"
    /\ \E q \in ListSet(plan.to_preserve) :
          execution.issues = {<<"Preserved item missing", q>>}

\* C31: a --dry-run uninstall computes the plan of the selected installation, never calls
\* execute_uninstall, leaves every installation directory as it is, and writes neither the
\* ledger nor the unified record.
DryRunChangesNothing ==
    [][(session # <<>> /\ session.dry_run) =>
          /\ machine' = machine
          /\ session'.executed = <<>>
          /\ status' = status
          /\ master' = master
          /\ (session.stage = "selected" /\ session'.stage = "finished")
                => session'.planned = <<session.selected>>]_vars

\* a finished --dry-run on a machine with an installation: planned, nothing executed
DryRunPlannedWitness ==
    /\ session # <<>> /\ session.dry_run
    /\ session.stage = "finished"
    /\ session.planned # <<>>
    /\ session.executed = <<>>
    /\ RemovedSites(installations[session.planned[1]], machine.present) # {}

\* C32: a --dry-run uninstall exits with code 0 whatever is detected: one installation,
\* several (operate-on-all included), or none.
DryRunExitsZero ==
    (session # <<>> /\ session.dry_run /\ session.stage = "finished")
        => session.exit_code = 0

----------------------------------------------------------------------------
(* More properties of the step ledger, checked under SpecLedger *)

\* C33: complete_step(N) moves current_step to N+1 only when N is the current step;
\* completing any other step leaves current_step as it was.
CompleteStepAdvancesOnlyCurrent ==
    [][\A n \in STEPS :
          hist' = Append(hist, Op("complete_step", n)) =>
             /\ status'.current_step # status.current_step
                   => (n = status.current_step /\ status'.current_step = n + 1)
             /\ n # status.current_step => status'.current_step = status.current_step]_vars

\* C34: fail_step(N) on a defined step leaves N in failed_steps, the record of step N at
\* status failed, resume_available true and current_step unchanged, whether or not
\* start_step(N) came before; on an undefined step it changes nothing.
FailStepAlwaysRecordsFailure ==
    [][\A n \in CallArgs :
          hist' = Append(hist, Op("fail_step", n)) =>
             IF n \in STEPS
             THEN /\ IsIn(n, status'.failed_steps)
                  /\ status'.step_details[n] = "failed"
                  /\ status'.resume_available
                  /\ status'.current_step = status.current_step
             ELSE status' = status]_vars

\* C35: after complete_installation(), from any ledger, current_step = total_steps,
\* failed_steps is empty and resume_available is false, so get_resume_step() = total_steps.
CompleteInstallationPostState ==
    [][hist' = Append(hist, Op("complete_installation", 0)) =>
          /\ status'.current_step = TotalSteps
          /\ status'.failed_steps = <<>>
          /\ ~status'.resume_available
          /\ get_resume_step(status') = TotalSteps]_vars

\* complete_installation on a ledger with a failed step and current_step below the last
CompleteAfterFailureWitness ==
    /\ hist = <<Op("start_step", 3), Op("fail_step", 3), Op("complete_installation", 0)>>
    /\ status.failed_steps = <<>>
    /\ status.current_step = TotalSteps
    /\ get_resume_step(status) = TotalSteps

----------------------------------------------------------------------------
(* Completed steps and resume, checked under Spec *)

\* the steps whose action returned success in the current run
SucceededInRun == run.invoked \ {run.failed_at}

\* C36: a step is in completed_steps only if its action succeeded in some run, and the
\* ledger and the unified record are marked fully installed only when every step's action
\* has succeeded; stated for the first launch on a machine with nothing installed, where
\* the current run is the only one there has been.
CompletedStepsWereRun ==
    launches = 1 =>
        /\ ListSet(status.completed_steps) \subseteq SucceededInRun
        /\ (status.installation_complete \/ master.ai_environment = STATUS_COMPLETED)
              => STEPS \subseteq SucceededInRun

\* C40: whenever do_resume_installation would resume AI_Environment, the start step it
\* passes (last_step_completed + 1 of the unified record) is at most get_resume_step() of
\* the step ledger.
ResumeStartNotPastLedger ==
    (Idle /\ get_resume_info(master).ai_environment_resume)
        => get_resume_info(master).ai_environment_last_step + 1 <= get_resume_step(status)

----------------------------------------------------------------------------
(* The captured snapshot, checked under SpecDurable *)

\* C37: on a fresh install whose AI_Environment directory did not exist before the
\* installer was started, the captured snapshot records ai_env_existed = false and
\* existing_subdirs empty.
FreshRootSnapshotSaysAbsent ==
    \A before \in RootsBefore :
        (/\ ~before.existed
         /\ proc.alive
         /\ proc.opened_on = "absent"
         /\ proc.captured = capture_on_open(before)
         /\ status.pre_install_state = proc.captured)
            => /\ ~status.pre_install_state.ai_env_existed
               /\ status.pre_install_state.existing_subdirs = {}

----------------------------------------------------------------------------
(* Merging of the detected paths, checked under SpecDetect *)

\* the paths the two detection sources return for the machine
PathsFound(m) ==
    LET primary_result == detect_from_status_file(m)
        scanned == scan_drives_for_installations(m)
    IN  (ListSet(scanned.env) \cup ListSet(scanned.lab)
            \cup (IF primary_result = <<>> THEN {}
                  ELSE {primary_result[1], primary_result[2]})) \ {NoneP}

\* C38: every AI_Environment path and every AI_Lab path returned by
\* scan_drives_for_installations, and every path returned by detect_from_status_file,
\* is the ai_environment_path or ai_lab_path of some candidate returned by
\* detect_all_installations, also when two paths of one product lie on the same volume.
NoDetectedPathLost ==
    Detected =>
        \A p \in PathsFound(machine) :
            \E i \in 1..Len(installations) :
                \/ normalize_path(installations[i].ai_environment_path) = normalize_path(p)
                \/ normalize_path(installations[i].ai_lab_path) = normalize_path(p)

----------------------------------------------------------------------------
(* Execution against verification, checked under SpecUninstall *)

\* C39: for every plan of create_uninstall_plan, when execute_uninstall carries the plan
\* out with every deletion succeeding and returns success, verify_complete_removal on the
\* same plan finds no issue, so the uninstall exits with code 0.
ExecuteSuccessVerifies ==
    [][(phase = "planned" /\ phase' = "done" /\ execution'.failed = {})
          => verify_complete_removal(plan, fs', roots') = {}]_vars

====
